---- MODULE Spec2Model ----
(***************************************************************************)
(* Model of the OpenAPI interpretation core of the Delphi docs UI:         *)
(*   - types/openapi.ts  (extractEndpoints, groupEndpointsByTag,           *)
(*                        resolveRef, resolveParameter, resolveParameters) *)
(*   - EndpointView.tsx  (generateExampleResponse)                         *)
(*   - Playground        (buildUrl, executeRequest, generateCurl and the   *)
(*                        try-it panel state)                              *)
(*   - useOpenAPI, App   (the document loader and the session)             *)
(*                                                                         *)
(* Strings that the code only compares are TLA+ strings.  Strings that the *)
(* code searches, cuts or rewrites (a $ref, a path template, a parameter   *)
(* value, a URL) are sequences of one-character strings.                   *)
(***************************************************************************)
EXTENDS Integers, Sequences, FiniteSets, TLC

VARIABLES
    spec,        \* the OpenAPI document handed to the function under study
    phase,       \* which functions have been applied so far
    endpoints,   \* result of extractEndpoints(spec)
    groups,      \* result of groupEndpointsByTag(spec)
    gen,         \* the running call of generateExampleResponse
    operationIn, \* the operation handed to resolveParameters
    parameters,  \* result of resolveParameters(spec, operation)
    play,        \* the Playground component: its props and its state
    apiKey,      \* the apiKey prop of the Playground
    requests,    \* the calls of executeRequest that have not returned yet
    session      \* the state of useOpenAPI and of App

vars == <<spec, phase, endpoints, groups, gen, operationIn, parameters, play,
          apiKey, requests, session>>

\* The variables of each part of the model.
indexVars == <<phase, endpoints, groups>>
paramVars == <<operationIn, parameters>>
liveVars == <<apiKey, requests, session>>

(***************************************************************************)
(* Bounds of the input space.                                              *)
(***************************************************************************)
MaxPaths == 2

\* Properties of an object schema.
MaxProps == 2

\* Nested calls of generateExampleResponse that are followed.
MaxCalls == 4

\* Entries of operationIn.parameters.
MaxParams == 2

\* Characters of a value typed into a parameter field.
MaxValueLen == 2

(***************************************************************************)
(* Generic helpers.                                                        *)
(***************************************************************************)
Range(s) == {s[i] : i \in 1..Len(s)}

\* Sequences over S of length at most n.
SeqsUpTo(S, n) == UNION {[1..k -> S] : k \in 0..n}

\* Array.prototype.indexOf, 0-based, -1 when absent.
RECURSIVE IndexFrom(_, _, _)
IndexFrom(s, x, i) ==
    IF i > Len(s) THEN -1
    ELSE IF s[i] = x THEN i - 1
    ELSE IndexFrom(s, x, i + 1)

indexOf(s, x) == IndexFrom(s, x, 1)

\* String.prototype.indexOf on character sequences, 1-based, 0 when absent.
RECURSIVE SubIndexFrom(_, _, _)
SubIndexFrom(str, pat, i) ==
    IF i + Len(pat) - 1 > Len(str) THEN 0
    ELSE IF SubSeq(str, i, i + Len(pat) - 1) = pat THEN i
    ELSE SubIndexFrom(str, pat, i + 1)

startsWith(str, pat) ==
    Len(pat) <= Len(str) /\ SubSeq(str, 1, Len(pat)) = pat

\* The backquote and quote characters, under these names.
Backquote == "backquote"
Quote == "quote"

\* The replacement text of String.prototype.replace with a string pattern:
\* $$ is a dollar sign, $& the match, $ with a backquote the text before it,
\* $ with a quote the text after it; any other character stands for itself.
RECURSIVE GetSubstitution(_, _, _, _, _)
GetSubstitution(repl, i, matched, before, after) ==
    IF i > Len(repl) THEN <<>>
    ELSE IF repl[i] = "$" /\ i < Len(repl) /\ repl[i + 1] \in {"$", "&", Backquote, Quote}
         THEN (CASE repl[i + 1] = "$" -> <<"$">>
                 [] repl[i + 1] = "&" -> matched
                 [] repl[i + 1] = Backquote -> before
                 [] repl[i + 1] = Quote -> after)
              \o GetSubstitution(repl, i + 2, matched, before, after)
         ELSE <<repl[i]>> \o GetSubstitution(repl, i + 1, matched, before, after)

\* String.prototype.replace(pat, repl) with a string pattern: the first
\* occurrence only.
replace(str, pat, repl) ==
    LET at == SubIndexFrom(str, pat, 1)
    IN  IF at = 0 THEN str
        ELSE LET before == SubSeq(str, 1, at - 1)
                 after == SubSeq(str, at + Len(pat), Len(str))
             IN  before \o GetSubstitution(repl, 1, pat, before, after) \o after

(***************************************************************************)
(* Data model (types/openapi.ts).                                          *)
(***************************************************************************)
\* The fixed method order of extractEndpoints.
methods == <<"get", "post", "put", "delete", "patch">>

HIDDEN_ENDPOINTS == <<"/api/v1/test-key">>

\* pathItem[method] is undefined: no operationIn under that method.
NoOperation == [present |-> FALSE, hasTags |-> FALSE, tags |-> <<>>]

\* An Operation; hasTags = FALSE is an operationIn without a tags field.
Operation(hasTags, tags) == [present |-> TRUE, hasTags |-> hasTags, tags |-> tags]

(***************************************************************************)
(* extractEndpoints.                                                       *)
(***************************************************************************)
\* The inner loop: one endpoint per method whose operationIn is truthy, in the
\* fixed method order.
RECURSIVE EndpointsOfPath(_, _, _)
EndpointsOfPath(path, pathItem, m) ==
    IF m > Len(methods) THEN <<>>
    ELSE LET operation == pathItem[methods[m]]
             rest == EndpointsOfPath(path, pathItem, m + 1)
         IN  IF operation.present
             THEN <<[path |-> path, method |-> methods[m], operation |-> operation]>> \o rest
             ELSE rest

\* The outer loop over Object.entries(spec.paths); hidden paths are skipped.
RECURSIVE ExtractFrom(_, _)
ExtractFrom(paths, i) ==
    IF i > Len(paths) THEN <<>>
    ELSE IF indexOf(HIDDEN_ENDPOINTS, paths[i].path) # -1
         THEN ExtractFrom(paths, i + 1)
         ELSE EndpointsOfPath(paths[i].path, paths[i].item, 1) \o ExtractFrom(paths, i + 1)

\* Mutation: the hidden-path test is lost.
ExtractNoHiding(s) ==
    LET RECURSIVE All(_)
        All(i) == IF i > Len(s.paths) THEN <<>>
                  ELSE EndpointsOfPath(s.paths[i].path, s.paths[i].item, 1) \o All(i + 1)
    IN  All(1)

extractEndpoints(s) == ExtractFrom(s.paths, 1)

(***************************************************************************)
(* groupEndpointsByTag.                                                    *)
(***************************************************************************)
\* Mutation: the last declared tag is used instead of the first.
firstTagLast(endpoint) ==
    LET op == endpoint.operation
    IN  IF op.hasTags /\ Len(op.tags) > 0 /\ op.tags[Len(op.tags)] # ""
        THEN op.tags[Len(op.tags)]
        ELSE "Other"

\* endpoint.operation.tags?.[0] || 'Other': an absent tags field, an empty
\* tags list and an empty first tag are all falsy.
firstTag(endpoint) ==
    LET op == endpoint.operation
    IN  IF op.hasTags /\ Len(op.tags) > 0 /\ op.tags[1] # ""
        THEN op.tags[1]
        ELSE "Other"

\* tagMap, a Map in insertion order, as a sequence of [name, endpoints].
RECURSIVE tagMapOf(_, _, _)
tagMapOf(eps, i, tagMap) ==
    IF i > Len(eps) THEN tagMap
    ELSE LET tag == firstTag(eps[i])
             at == CHOOSE k \in 0..Len(tagMap) :
                      \/ k > 0 /\ tagMap[k].name = tag
                      \/ k = 0 /\ \A j \in 1..Len(tagMap) : tagMap[j].name # tag
             withKey == IF at = 0
                        THEN Append(tagMap, [name |-> tag, endpoints |-> <<>>])
                        ELSE tagMap
             pos == IF at = 0 THEN Len(withKey) ELSE at
         IN  tagMapOf(eps, i + 1,
                 [withKey EXCEPT ![pos].endpoints = Append(@, eps[i])])

\* spec.tags?.map(t => t.name) || []
tagOrder(s) == IF s.hasTags THEN [i \in 1..Len(s.tags) |-> s.tags[i].name] ELSE <<>>

\* tagDescriptions.get(name): <<>> is undefined, <<d>> the description set
\* by the last declaration of that name (tag.description || '').
tagDescription(s, name) ==
    LET decl == IF s.hasTags THEN s.tags ELSE <<>>
        hits == {i \in 1..Len(decl) : decl[i].name = name}
    IN  IF hits = {} THEN <<>>
        ELSE <<decl[CHOOSE i \in hits : \A j \in hits : j <= i].description>>

\* Mutation: undeclared tags are not pushed to the end.
compareGroupsNoUnknownRule(order, a, b) ==
    indexOf(order, a.name) - indexOf(order, b.name)

\* The comparator handed to groups.sort.
compareGroups(order, a, b) ==
    LET aIndex == indexOf(order, a.name)
        bIndex == indexOf(order, b.name)
    IN  IF aIndex = -1 /\ bIndex = -1 THEN 0
        ELSE IF aIndex = -1 THEN 1
        ELSE IF bIndex = -1 THEN -1
        ELSE aIndex - bIndex

\* Array.prototype.sort is stable: x goes after every element that does not
\* compare greater than it.
RECURSIVE insertSorted(_, _, _)
insertSorted(order, sorted, x) ==
    IF sorted = <<>> THEN <<x>>
    ELSE IF compareGroups(order, Head(sorted), x) <= 0
         THEN <<Head(sorted)>> \o insertSorted(order, Tail(sorted), x)
         ELSE <<x>> \o sorted

RECURSIVE sortGroups(_, _, _)
sortGroups(order, gs, i) ==
    IF i = 0 THEN <<>>
    ELSE insertSorted(order, sortGroups(order, gs, i - 1), gs[i])

groupEndpointsByTag(s) ==
    LET tagMap == tagMapOf(extractEndpoints(s), 1, <<>>)
        unsorted == [i \in 1..Len(tagMap) |->
                        [name |-> tagMap[i].name,
                         description |-> tagDescription(s, tagMap[i].name),
                         endpoints |-> tagMap[i].endpoints]]
        sorted == sortGroups(tagOrder(s), unsorted, Len(unsorted))
    IN  SelectSeq(sorted, LAMBDA g : Len(g.endpoints) > 0)

(***************************************************************************)
(* resolveParameter and resolveParameters.                                 *)
(***************************************************************************)
\* '#/components/parameters/'
ParameterPrefix ==
    <<"#", "/", "c", "o", "m", "p", "o", "n", "e", "n", "t", "s", "/",
      "p", "a", "r", "a", "m", "e", "t", "e", "r", "s", "/">>

\* A Parameter, or a reference to one.  name and in are "" on a bare
\* reference; example, schemaExample (schema.example) and schemaDefault
\* (schema.default) hold at most one value, already as text.
Parameter(hasRef, ref, name, in, example, schemaExample, schemaDefault) ==
    [hasRef |-> hasRef, ref |-> ref, name |-> name, in |-> in, example |-> example,
     schemaExample |-> schemaExample, schemaDefault |-> schemaDefault]

\* spec.components?.parameters?.[name]: <<>> is undefined.
parameterNamed(s, name) ==
    IF name \in DOMAIN s.parameters THEN <<s.parameters[name]>> ELSE <<>>

\* resolveParameter(spec, param): <<>> is undefined.
resolveParameter(s, param) ==
    IF param.hasRef /\ param.ref # <<>>
    THEN IF ~startsWith(param.ref, ParameterPrefix) THEN <<>>
         ELSE parameterNamed(s, replace(param.ref, ParameterPrefix, <<>>))
    ELSE <<param>>

\* .map(p => resolveParameter(spec, p)).filter(p => p !== undefined)
RECURSIVE mapFilterParameters(_, _, _)
mapFilterParameters(s, declared, i) ==
    IF i > Len(declared) THEN <<>>
    ELSE resolveParameter(s, declared[i]) \o mapFilterParameters(s, declared, i + 1)

\* resolveParameters(spec, operationIn); op.parameters = <<>> with
\* hasParameters = FALSE is an operationIn without a parameters field.
resolveParameters(s, op) ==
    IF ~op.hasParameters THEN <<>>
    ELSE mapFilterParameters(s, op.parameters, 1)

\* The call resolveParameters(spec, operationIn).
ResolveParameters ==
    /\ operationIn # <<>>
    /\ parameters = <<>>
    /\ parameters' = <<resolveParameters(spec, operationIn[1])>>
    /\ UNCHANGED <<spec, indexVars, gen, operationIn, play, liveVars>>

(***************************************************************************)
(* Playground: its state and buildUrl.                                     *)
(* play.endpoint and play.apiKey are props; params, requestBody, loading,  *)
(* response and error are the useState cells; pendingReset says that the   *)
(* endpoint has changed and the reset effect has not run yet.              *)
(***************************************************************************)
\* params[name]: <<>> for a missing key (undefined) as for ''.
paramValue(params, name) == IF name \in DOMAIN params THEN params[name] ELSE <<>>

\* const allParams = spec ? resolveParameters(spec, operation) : []
allParams(s, endpoint) == resolveParameters(s, endpoint.operation)

pathParams(s, endpoint) == SelectSeq(allParams(s, endpoint), LAMBDA p : p.in = "path")

queryParams(s, endpoint) == SelectSeq(allParams(s, endpoint), LAMBDA p : p.in = "query")

\* param.example?.toString() || param.schema?.example?.toString()
\*   || param.schema?.default?.toString() || ''
initialValue(param) ==
    IF param.example # <<>> /\ param.example[1] # <<>> THEN param.example[1]
    ELSE IF param.schemaExample # <<>> /\ param.schemaExample[1] # <<>>
         THEN param.schemaExample[1]
    ELSE IF param.schemaDefault # <<>> /\ param.schemaDefault[1] # <<>>
         THEN param.schemaDefault[1]
    ELSE <<>>

\* getInitialParams(): one key per resolved parameter; of two parameters
\* with the same name the later one sets the value.
getInitialParams(s, endpoint) ==
    LET all == allParams(s, endpoint)
    IN  [n \in {all[i].name : i \in 1..Len(all)} |->
            initialValue(all[CHOOSE i \in 1..Len(all) :
                /\ all[i].name = n
                /\ \A j \in 1..Len(all) : all[j].name = n => j <= i])]

\* spec?.servers?.[0]?.url || ''
baseUrl(s) == IF Len(s.servers) > 0 THEN s.servers[1].url ELSE <<>>

\* The loop over pathParams: the first occurrence of {name} is replaced by
\* params[name], or by {name} itself when that is falsy.
RECURSIVE builtPath(_, _, _, _)
builtPath(path, pparams, params, i) ==
    IF i > Len(pparams) THEN path
    ELSE LET placeholder == <<"{">> \o pparams[i].name \o <<"}">>
             value == paramValue(params, pparams[i].name)
         IN  builtPath(replace(path, placeholder,
                               IF value # <<>> THEN value ELSE placeholder),
                       pparams, params, i + 1)

\* encodeURIComponent of one character: A-Z a-z 0-9 - _ . ! ~ * ' ( ) stay,
\* the other characters of the alphabet become %XX.
encodeCharacter(c) ==
    CASE c = "$" -> <<"%", "2", "4">>
      [] c = "&" -> <<"%", "2", "6">>
      [] c = " " -> <<"%", "2", "0">>
      [] c = "=" -> <<"%", "3", "D">>
      [] c = "/" -> <<"%", "2", "F">>
      [] c = "{" -> <<"%", "7", "B">>
      [] c = "}" -> <<"%", "7", "D">>
      [] c = Backquote -> <<"%", "6", "0">>
      [] OTHER -> <<c>>

RECURSIVE encodeURIComponent(_)
encodeURIComponent(str) ==
    IF str = <<>> THEN <<>>
    ELSE encodeCharacter(Head(str)) \o encodeURIComponent(Tail(str))

\* Mutation: a parameter without value is emitted as name=.
queryPartsWithEmpty(qparams, params, i) ==
    LET RECURSIVE Parts(_)
        Parts(k) ==
            IF k > Len(qparams) THEN <<>>
            ELSE <<qparams[k].name \o <<"=">>
                     \o encodeURIComponent(paramValue(params, qparams[k].name))>>
                 \o Parts(k + 1)
    IN  Parts(i)

\* The loop over queryParams: name=encodeURIComponent(value) for every
\* parameter whose value is truthy.
RECURSIVE queryParts(_, _, _)
queryParts(qparams, params, i) ==
    IF i > Len(qparams) THEN <<>>
    ELSE LET value == paramValue(params, qparams[i].name)
             rest == queryParts(qparams, params, i + 1)
         IN  IF value # <<>>
             THEN <<qparams[i].name \o <<"=">> \o encodeURIComponent(value)>> \o rest
             ELSE rest

\* Array.prototype.join
RECURSIVE join(_, _)
join(parts, sep) ==
    IF parts = <<>> THEN <<>>
    ELSE IF Len(parts) = 1 THEN parts[1]
    ELSE parts[1] \o sep \o join(Tail(parts), sep)

\* queryParts.length > 0 ? '?' + queryParts.join('&') : ''
queryString(s, endpoint, params) ==
    LET parts == queryParts(queryParams(s, endpoint), params, 1)
    IN  IF Len(parts) > 0 THEN <<"?">> \o join(parts, <<"&">>) ELSE <<>>

\* buildUrl()
buildUrl(s, endpoint, params) ==
    baseUrl(s)
    \o builtPath(endpoint.path, pathParams(s, endpoint), params, 1)
    \o queryString(s, endpoint, params)

\* updateParam(name, value), called by the field of a resolved parameter.
UpdateParam(name, value) ==
    /\ play.mounted
    /\ ~play.pendingReset
    /\ \E i \in 1..Len(allParams(spec, play.endpoint)) :
          allParams(spec, play.endpoint)[i].name = name
    /\ play' = [play EXCEPT !.params =
                   [n \in DOMAIN play.params \cup {name} |->
                       IF n = name THEN value ELSE play.params[n]]]
    /\ UNCHANGED <<spec, indexVars, gen, paramVars, liveVars>>

\* setRequestBody(e.target.value); the textarea is rendered when the
\* operation declares a requestBody.
SetRequestBody(text) ==
    /\ play.mounted
    /\ ~play.pendingReset
    /\ play.endpoint.operation.hasRequestBody
    /\ play' = [play EXCEPT !.requestBody = text]
    /\ UNCHANGED <<spec, indexVars, gen, paramVars, liveVars>>

\* The endpoint prop changes: the component renders with its old state and
\* the effect on [path, method] is scheduled when one of the two differs.
SelectEndpoint(endpoint) ==
    /\ play.mounted
    /\ ~play.pendingReset
    /\ endpoint # play.endpoint
    /\ play' = [play EXCEPT !.endpoint = endpoint,
                            !.pendingReset = (endpoint.path # play.endpoint.path
                                              \/ endpoint.method # play.endpoint.method)]
    /\ UNCHANGED <<spec, indexVars, gen, paramVars, liveVars>>

\* Mutation: the effect resets the parameter values only.
ResetEffectKeepsOutcome ==
    /\ play.mounted
    /\ play.pendingReset
    /\ play' = [play EXCEPT !.params = getInitialParams(spec, play.endpoint),
                            !.pendingReset = FALSE]
    /\ UNCHANGED <<spec, indexVars, gen, paramVars, liveVars>>

\* useEffect(() => { setParams(getInitialParams()); setResponse(null);
\*                   setError(null) }, [path, method])
ResetEffect ==
    /\ play.mounted
    /\ play.pendingReset
    /\ play' = [play EXCEPT !.params = getInitialParams(spec, play.endpoint),
                            !.response = <<>>,
                            !.error = <<>>,
                            !.pendingReset = FALSE]
    /\ UNCHANGED <<spec, indexVars, gen, paramVars, liveVars>>

(***************************************************************************)
(* The live test call of the Playground: executeRequest and generateCurl.  *)
(***************************************************************************)
\* In-flight calls of executeRequest that are followed at the same time.
MaxInFlight == 2

\* method.toUpperCase()
toUpperCase(method) ==
    CASE method = "get" -> "GET"
      [] method = "post" -> "POST"
      [] method = "put" -> "PUT"
      [] method = "delete" -> "DELETE"
      [] method = "patch" -> "PATCH"
      [] OTHER -> method

\* Mutation: the credential header is set even when the credential is empty.
requestHeadersAlwaysKey(key) ==
    [h \in {"Content-Type", "X-API-Key"} |->
        IF h = "Content-Type" THEN "application/json" ELSE key]

\* const headers = { 'Content-Type': 'application/json' }
\* if (apiKey) headers['X-API-Key'] = apiKey
requestHeaders(key) ==
    [h \in {"Content-Type"} \cup (IF key # "" THEN {"X-API-Key"} ELSE {}) |->
        IF h = "Content-Type" THEN "application/json" ELSE key]

\* Mutation: the body is attached whatever the method.
sendsBodyAnyMethod(method, requestBody) == requestBody # <<>>

\* requestBody && ['post', 'put', 'patch'].includes(method)
sendsBody(method, requestBody) ==
    requestBody # <<>> /\ method \in {"post", "put", "patch"}

\* const options = { method: method.toUpperCase(), headers }, with
\* options.body = requestBody under the condition above; body is <<>> when
\* the option is not set and <<text>> when it is.
requestOptions(method, key, requestBody) ==
    [method |-> toUpperCase(method),
     headers |-> requestHeaders(key),
     body |-> IF sendsBody(method, requestBody) THEN <<requestBody>> ELSE <<>>]

\* generateCurl(): the arguments of the rendered command, in the order of
\* the text: -X METHOD, the quoted URL, then one -H per header line and
\* the -d line.
generateCurl(s, endpoint, params, requestBody, key) ==
    [X |-> toUpperCase(endpoint.method),
     url |-> buildUrl(s, endpoint, params),
     H |-> (IF key # "" THEN <<[name |-> "X-API-Key", value |-> key]>> ELSE <<>>)
           \o (IF requestBody # <<>> /\ endpoint.method \in {"post", "put", "patch"}
               THEN <<[name |-> "Content-Type", value |-> "application/json"]>>
               ELSE <<>>),
     d |-> IF requestBody # <<>> /\ endpoint.method \in {"post", "put", "patch"}
           THEN <<requestBody>> ELSE <<>>]

\* The (path, method) pair an endpoint is known by.
endpointKey(endpoint) == [path |-> endpoint.path, method |-> endpoint.method]

\* Mutation: the button stays enabled while a request is under way.
tryItNeverDisabled(p) == FALSE

\* <button onClick={executeRequest} disabled={loading}>
tryItDisabled(p) == p.loading

\* executeRequest() up to await fetch(url, options): the three state
\* updates, then the request leaves with the URL and options built from the
\* state of this render.  issuedFor records the endpoint of that render.
ExecuteRequest ==
    /\ play.mounted
    /\ ~play.pendingReset
    /\ ~tryItDisabled(play)
    /\ Len(requests) < MaxInFlight
    /\ play' = [play EXCEPT !.loading = TRUE, !.error = <<>>, !.response = <<>>]
    /\ requests' = Append(requests,
          [issuedFor |-> endpointKey(play.endpoint),
           url |-> buildUrl(spec, play.endpoint, play.params),
           options |-> requestOptions(play.endpoint.method, apiKey, play.requestBody),
           stage |-> "fetch",
           status |-> 0,
           json |-> FALSE])
    /\ UNCHANGED <<spec, indexVars, gen, paramVars, apiKey, session>>

\* requests without its i-th element.
without(i) == SubSeq(requests, 1, i - 1) \o SubSeq(requests, i + 1, Len(requests))

\* The message of the TypeError a failed fetch or body read rejects with,
\* and of the SyntaxError res.json() rejects with.
NetworkError == "Failed to fetch"
SyntaxError == "Unexpected token"

\* catch (err) { setError(err.message) } finally { setLoading(false) }
\* producedFor records the request the outcome comes from.
caught(i, message) ==
    /\ play' = [play EXCEPT !.error = <<[message |-> message,
                                         producedFor |-> requests[i].issuedFor]>>,
                            !.loading = FALSE]
    /\ requests' = without(i)

\* await fetch(url, options) resolves: the response head has arrived, with
\* its status and content-type; contentType?.includes('application/json')
\* selects res.json() or res.text().
FetchResolves(i, status, json) ==
    /\ i \in 1..Len(requests)
    /\ requests[i].stage = "fetch"
    /\ ~play.pendingReset
    /\ requests' = [requests EXCEPT ![i].stage = "body",
                                    ![i].status = status,
                                    ![i].json = json]
    /\ UNCHANGED <<spec, indexVars, gen, paramVars, play, apiKey, session>>

\* await fetch(url, options) rejects: no connection, DNS, CORS.
FetchRejects(i) ==
    /\ i \in 1..Len(requests)
    /\ requests[i].stage = "fetch"
    /\ ~play.pendingReset
    /\ caught(i, NetworkError)
    /\ UNCHANGED <<spec, indexVars, gen, paramVars, apiKey, session>>

\* await res.json() or await res.text() resolves:
\* setResponse({ status, statusText, headers, body, duration }), then
\* finally { setLoading(false) }.  The body is a parsed JSON value or the
\* raw text.
BodyResolves(i) ==
    /\ i \in 1..Len(requests)
    /\ requests[i].stage = "body"
    /\ ~play.pendingReset
    /\ play' = [play EXCEPT !.response =
                      <<[status |-> requests[i].status,
                         body |-> IF requests[i].json THEN "json" ELSE "text",
                         producedFor |-> requests[i].issuedFor]>>,
                            !.loading = FALSE]
    /\ requests' = without(i)
    /\ UNCHANGED <<spec, indexVars, gen, paramVars, apiKey, session>>

\* await res.json() rejects because the body is no JSON text (an empty or
\* an HTML body under a JSON content-type).
JsonRejects(i) ==
    /\ i \in 1..Len(requests)
    /\ requests[i].stage = "body"
    /\ requests[i].json
    /\ ~play.pendingReset
    /\ caught(i, SyntaxError)
    /\ UNCHANGED <<spec, indexVars, gen, paramVars, apiKey, session>>

\* The connection breaks while the body is read: res.json() or res.text()
\* rejects.
BodyRejects(i) ==
    /\ i \in 1..Len(requests)
    /\ requests[i].stage = "body"
    /\ ~play.pendingReset
    /\ caught(i, NetworkError)
    /\ UNCHANGED <<spec, indexVars, gen, paramVars, apiKey, session>>

(***************************************************************************)
(* Schemas and JSON values.                                                *)
(***************************************************************************)
\* A JSON value: its kind and, for the values used here, its JSON text
\* (for a string, the characters between the quotes).
JSON(kind, lit) == [kind |-> kind, lit |-> lit]

\* JavaScript truthiness of a JSON value: 0, "", false and null are falsy.
Truthy(v) ==
    ~ \/ v.kind = "null"
      \/ v.kind = "number" /\ v.lit = "0"
      \/ v.kind = "string" /\ v.lit = ""
      \/ v.kind = "boolean" /\ v.lit = "false"

\* JSON.stringify(v, null, 2) of a primitive, of [] and of {}.
stringify(v) == IF v.kind = "string" THEN "\"" \o v.lit \o "\"" ELSE v.lit

\* JSON.stringify(obj, null, 2) of an object given as its entries in
\* insertion order.
RECURSIVE stringifyEntries(_, _)
stringifyEntries(entries, i) ==
    IF i > Len(entries) THEN ""
    ELSE "  \"" \o entries[i].name \o "\": " \o stringify(entries[i].value)
         \o (IF i < Len(entries) THEN ",\n" ELSE "\n")
         \o stringifyEntries(entries, i + 1)

stringifyObject(entries) ==
    IF entries = <<>> THEN "{}" ELSE "{\n" \o stringifyEntries(entries, 1) \o "}"

\* A Schema.  type "" and format "" are absent fields; items holds at most
\* one schema; properties are [name, schema] entries in key order.
Schema(hasRef, ref, type, format, hasExample, example, hasProperties, properties, items) ==
    [hasRef |-> hasRef, ref |-> ref, type |-> type, format |-> format,
     hasExample |-> hasExample, example |-> example,
     hasProperties |-> hasProperties, properties |-> properties, items |-> items]

JNull == JSON("null", "null")

\* Shorthands for the schemas of the input space.
Typed(type) == Schema(FALSE, <<>>, type, "", FALSE, JNull, FALSE, <<>>, <<>>)
Formatted(type, format) == Schema(FALSE, <<>>, type, format, FALSE, JNull, FALSE, <<>>, <<>>)
WithExample(type, example) == Schema(FALSE, <<>>, type, "", TRUE, example, FALSE, <<>>, <<>>)
RefTo(ref) == Schema(TRUE, ref, "", "", FALSE, JNull, FALSE, <<>>, <<>>)
ObjectOf(properties) == Schema(FALSE, <<>>, "object", "", FALSE, JNull, TRUE, properties, <<>>)
ArrayOf(items) == Schema(FALSE, <<>>, "array", "", FALSE, JNull, FALSE, <<>>, items)

(***************************************************************************)
(* Schema references.                                                      *)
(***************************************************************************)
\* '#/components/schemas/'
SchemaPrefix ==
    <<"#", "/", "c", "o", "m", "p", "o", "n", "e", "n", "t", "s", "/",
      "s", "c", "h", "e", "m", "a", "s", "/">>

\* spec.components?.schemas?.[name]: <<>> is undefined.
schemaNamed(s, name) ==
    IF name \in DOMAIN s.schemas THEN <<s.schemas[name]>> ELSE <<>>

\* The exported helper resolveRef(spec, ref): one lookup, undefined unless the
\* reference starts with the prefix.
resolveRef(s, ref) ==
    IF ~startsWith(ref, SchemaPrefix) THEN <<>>
    ELSE schemaNamed(s, replace(ref, SchemaPrefix, <<>>))

\* Mutation: the name is looked up with the prefix still on it.
inlineResolveUnstripped(s, schema) ==
    IF schema.hasRef /\ schema.ref # <<>> THEN schemaNamed(s, schema.ref) ELSE <<>>

\* The lookup written inline in generateExampleResponse and SchemaFields:
\* the prefix is cut out of schema.$ref wherever it first occurs, with no
\* test that the reference starts with it.  The document is loaded (spec is
\* not null) whenever an endpoint is shown.
inlineResolve(s, schema) ==
    IF schema.hasRef /\ schema.ref # <<>>
    THEN schemaNamed(s, replace(schema.ref, SchemaPrefix, <<>>))
    ELSE <<>>

(***************************************************************************)
(* generateExampleResponse, one action per branch of one invocation.       *)
(* gen.call is the argument of the running invocation (<<>> is undefined), *)
(* gen.wraps the number of array branches waiting for its result.          *)
(***************************************************************************)
\* The template [\n  ${itemExample}\n], once per pending array branch.
RECURSIVE wrapArray(_, _)
wrapArray(text, n) ==
    IF n = 0 THEN text ELSE wrapArray("[\n  " \o text \o "\n]", n - 1)

\* Mutation: an array property is filled with one synthesized element.
propertyExampleDeepArray(prop) ==
    IF prop.hasExample THEN prop.example
    ELSE IF prop.type = "string"
         THEN JSON("string", IF prop.format = "date-time"
                             THEN "2024-01-01T00:00:00Z" ELSE "string")
    ELSE IF prop.type = "number" \/ prop.type = "integer" THEN JSON("number", "0")
    ELSE IF prop.type = "boolean" THEN JSON("boolean", "true")
    ELSE IF prop.type = "array" THEN JSON("array", "[\n    {}\n  ]")
    ELSE JNull

\* The value given to one property of an object schema.
propertyExample(prop) ==
    IF prop.hasExample THEN prop.example
    ELSE IF prop.type = "string"
         THEN JSON("string", IF prop.format = "date-time"
                             THEN "2024-01-01T00:00:00Z" ELSE "string")
    ELSE IF prop.type = "number" \/ prop.type = "integer" THEN JSON("number", "0")
    ELSE IF prop.type = "boolean" THEN JSON("boolean", "true")
    ELSE IF prop.type = "array" THEN JSON("array", "[]")
    ELSE JNull

\* The object built by the loop over Object.entries(schema.properties).
objectExample(properties) ==
    [i \in 1..Len(properties) |->
        [name |-> properties[i].name, value |-> propertyExample(properties[i].schema)]]

GenCalling == gen.pc = "call"

\* The invocation returns text: pending array branches wrap it.
GenReturn(text, acted) ==
    gen' = [gen EXCEPT !.pc = "done",
                       !.result = wrapArray(text, gen.wraps),
                       !.resolved = IF gen.resolved = <<>> THEN acted ELSE @]

\* Mutation: a hop budget; past two nested calls the fallback is returned.
GenRecurseWithBudget(schema, wraps, acted) ==
    IF gen.calls < 2
    THEN gen' = [gen EXCEPT !.call = schema,
                            !.calls = @ + 1,
                            !.wraps = wraps,
                            !.resolved = IF gen.resolved = <<>> THEN acted ELSE @]
    ELSE GenReturn("{}", acted)

\* The invocation calls itself on a schema.
GenRecurse(schema, wraps, acted) ==
    /\ gen.calls < MaxCalls
    /\ gen' = [gen EXCEPT !.call = schema,
                          !.calls = @ + 1,
                          !.wraps = wraps,
                          !.resolved = IF gen.resolved = <<>> THEN acted ELSE @]

\* if (!schema) return '{}'
GenUndefined ==
    /\ GenCalling
    /\ gen.call = <<>>
    /\ GenReturn("{}", <<>>)
    /\ UNCHANGED <<spec, indexVars, paramVars, play, liveVars>>

\* if (schema.$ref && spec) { ... if (resolved) return generate(resolved) }
GenFollowRef ==
    /\ GenCalling
    /\ gen.call # <<>>
    /\ inlineResolve(spec, gen.call[1]) # <<>>
    /\ GenRecurse(inlineResolve(spec, gen.call[1]), gen.wraps, <<>>)
    /\ UNCHANGED <<spec, indexVars, paramVars, play, liveVars>>

\* The invocation has got past the $ref test with this schema.
GenActsOn(schema) ==
    /\ GenCalling
    /\ gen.call = <<schema>>
    /\ inlineResolve(spec, schema) = <<>>

\* if (schema.example) return JSON.stringify(schema.example, null, 2)
GenExample ==
    /\ gen.call # <<>>
    /\ LET schema == gen.call[1]
       IN  /\ GenActsOn(schema)
           /\ schema.hasExample /\ Truthy(schema.example)
           /\ GenReturn(stringify(schema.example), <<schema>>)
    /\ UNCHANGED <<spec, indexVars, paramVars, play, liveVars>>

GenNoExample(schema) == ~(schema.hasExample /\ Truthy(schema.example))

\* if (schema.type === 'array') with items: the element is synthesized.
GenArrayItems ==
    /\ gen.call # <<>>
    /\ LET schema == gen.call[1]
       IN  /\ GenActsOn(schema)
           /\ GenNoExample(schema)
           /\ schema.type = "array"
           /\ schema.items # <<>>
           /\ GenRecurse(schema.items, gen.wraps + 1, <<schema>>)
    /\ UNCHANGED <<spec, indexVars, paramVars, play, liveVars>>

\* if (schema.type === 'array') without items: the element is '{}'.
GenArrayNoItems ==
    /\ gen.call # <<>>
    /\ LET schema == gen.call[1]
       IN  /\ GenActsOn(schema)
           /\ GenNoExample(schema)
           /\ schema.type = "array"
           /\ schema.items = <<>>
           /\ GenReturn(wrapArray("{}", 1), <<schema>>)
    /\ UNCHANGED <<spec, indexVars, paramVars, play, liveVars>>

\* if (schema.type === 'object' && schema.properties)
GenObject ==
    /\ gen.call # <<>>
    /\ LET schema == gen.call[1]
       IN  /\ GenActsOn(schema)
           /\ GenNoExample(schema)
           /\ schema.type = "object"
           /\ schema.hasProperties
           /\ GenReturn(stringifyObject(objectExample(schema.properties)), <<schema>>)
    /\ UNCHANGED <<spec, indexVars, paramVars, play, liveVars>>

\* return '{}'
GenFallback ==
    /\ gen.call # <<>>
    /\ LET schema == gen.call[1]
       IN  /\ GenActsOn(schema)
           /\ GenNoExample(schema)
           /\ schema.type # "array"
           /\ ~(schema.type = "object" /\ schema.hasProperties)
           /\ GenReturn("{}", <<schema>>)
    /\ UNCHANGED <<spec, indexVars, paramVars, play, liveVars>>

\* resolveRef applied to the $ref of the schema handed in.
ResolveRef ==
    /\ gen.root # <<>>
    /\ gen.root[1].hasRef
    /\ ~gen.looked
    /\ gen' = [gen EXCEPT !.looked = TRUE,
                          !.lookup = resolveRef(spec, gen.root[1].ref)]
    /\ UNCHANGED <<spec, indexVars, paramVars, play, liveVars>>

(***************************************************************************)
(* Input space of the endpoint indexer.                                    *)
(***************************************************************************)
PathNames == {"/api/v1/test-key", "/ping", "/markets/{id}"}

\* The tags field of an operationIn: absent, or a list of tag names.
NoTags == [hasTags |-> FALSE, tags |-> <<>>]
OperationTags ==
    {NoTags} \cup {[hasTags |-> TRUE, tags |-> t] : t \in {<<"">>, <<"Markets">>}}

MethodSets == {{}, {"get"}, {"post", "get"}, {"patch", "put"}}

\* A path item: get carries the tags g, every other present method the tags o.
PathItemOf(ms, g, o) ==
    [m \in Range(methods) |->
        IF m \notin ms THEN NoOperation
        ELSE IF m = "get" THEN Operation(g.hasTags, g.tags)
        ELSE Operation(o.hasTags, o.tags)]

PathItems ==
    {PathItemOf(ms, g, o) :
        ms \in MethodSets, g \in OperationTags,
        o \in {[hasTags |-> TRUE, tags |-> t] : t \in {<<>>, <<"Health", "Markets">>}}}

\* spec.paths in key order: distinct keys, at most MaxPaths of them.
PathMaps ==
    {ps \in SeqsUpTo([path : PathNames, item : PathItems], MaxPaths) :
        \A i, j \in 1..Len(ps) : i # j => ps[i].path # ps[j].path}

Tag(name, description) == [name |-> name, description |-> description]

\* spec.tags: absent, or a list of declarations (names may repeat).
DeclaredTags ==
    {[hasTags |-> FALSE, tags |-> <<>>]} \cup
    {[hasTags |-> TRUE, tags |-> t] :
        t \in {<<Tag("Markets", "Market data")>>,
               <<Tag("Health", ""), Tag("Markets", "Market data")>>,
               <<Tag("Markets", "Market data"), Tag("Health", "Liveness"),
                 Tag("Markets", "")>>}}

IndexSpecs ==
    {[hasTags |-> d.hasTags, tags |-> d.tags, paths |-> ps] :
        d \in DeclaredTags, ps \in PathMaps}

\* resolveParameters is not in use.
ParamIdle == operationIn = <<>> /\ parameters = <<>>

\* No Playground is mounted.
PlayIdle == [mounted |-> FALSE]

\* No App is rendered, no request is under way.
SessionIdle == [stage |-> "idle"]
LiveIdle == apiKey = "" /\ requests = <<>> /\ session = SessionIdle

\* No call of generateExampleResponse is running.
GenIdle ==
    [pc |-> "idle", root |-> <<>>, call |-> <<>>, calls |-> 0, wraps |-> 0,
     resolved |-> <<>>, result |-> "", looked |-> FALSE, lookup |-> <<>>]

(***************************************************************************)
(* Specification of the endpoint indexer: a document is chosen, then the   *)
(* two exported functions are applied to it.                               *)
(***************************************************************************)
IndexInit ==
    /\ spec \in IndexSpecs
    /\ phase = {}
    /\ endpoints = <<>>
    /\ groups = <<>>
    /\ gen = GenIdle
    /\ ParamIdle
    /\ play = PlayIdle
    /\ LiveIdle

ExtractEndpoints ==
    /\ "extract" \notin phase
    /\ endpoints' = extractEndpoints(spec)
    /\ phase' = phase \cup {"extract"}
    /\ UNCHANGED <<spec, groups, gen, paramVars, play, liveVars>>

GroupEndpointsByTag ==
    /\ "group" \notin phase
    /\ groups' = groupEndpointsByTag(spec)
    /\ phase' = phase \cup {"group"}
    /\ UNCHANGED <<spec, endpoints, gen, paramVars, play, liveVars>>

IndexNext == ExtractEndpoints \/ GroupEndpointsByTag

IndexSpec == IndexInit /\ [][IndexNext]_vars

(***************************************************************************)
(* Claims about the endpoint indexer.                                      *)
(***************************************************************************)
\* Position of the path key p in the document, 0 when it is no key.
PathPosition(p) ==
    IF \E i \in 1..Len(spec.paths) : spec.paths[i].path = p
    THEN CHOOSE i \in 1..Len(spec.paths) : spec.paths[i].path = p
    ELSE 0

MethodPosition(m) == CHOOSE i \in 1..5 : <<"get", "post", "put", "delete", "patch">>[i] = m

\* The (path, method) pairs the document declares outside the hidden set.
VisiblePairs ==
    {pm \in {<<spec.paths[i].path, m>> :
                i \in 1..Len(spec.paths),
                m \in {"get", "post", "put", "delete", "patch"}} :
        /\ pm[1] # "/api/v1/test-key"
        /\ spec.paths[PathPosition(pm[1])].item[pm[2]].present}

\* C1: extractEndpoints returns no endpoint of the hidden path
\* /api/v1/test-key, exactly one endpoint per (path, method present on that
\* path item) pair of the remaining paths, in the document's path key order
\* and within one path in the order get, post, put, delete, patch.
C1_ExtractEndpoints ==
    "extract" \in phase =>
        /\ \A k \in 1..Len(endpoints) : endpoints[k].path # "/api/v1/test-key"
        /\ \A k \in 1..Len(endpoints) :
              /\ <<endpoints[k].path, endpoints[k].method>> \in VisiblePairs
              /\ endpoints[k].operation =
                    spec.paths[PathPosition(endpoints[k].path)].item[endpoints[k].method]
        /\ \A pm \in VisiblePairs :
              Cardinality({k \in 1..Len(endpoints) :
                  endpoints[k].path = pm[1] /\ endpoints[k].method = pm[2]}) = 1
        /\ \A k, l \in 1..Len(endpoints) :
              k < l =>
                 \/ PathPosition(endpoints[k].path) < PathPosition(endpoints[l].path)
                 \/ /\ endpoints[k].path = endpoints[l].path
                    /\ MethodPosition(endpoints[k].method) < MethodPosition(endpoints[l].method)

\* C1 witness: a document whose hidden path carries an operationIn and comes
\* first, followed by a path with two methods, has been extracted.
C1_Witness ==
    /\ "extract" \in phase
    /\ Len(spec.paths) = 2
    /\ spec.paths[1].path = "/api/v1/test-key"
    /\ spec.paths[1].item["get"].present
    /\ Len(endpoints) = 2
    /\ endpoints[1].method = "put"
    /\ endpoints[2].method = "patch"

\* Position of an endpoint in extractEndpoints(spec), 0 when it is not there.
ExtractedPosition(e) ==
    LET eps == extractEndpoints(spec)
    IN  IF \E k \in 1..Len(eps) : eps[k] = e
        THEN CHOOSE k \in 1..Len(eps) : eps[k] = e
        ELSE 0

\* The groups form a partition of extractEndpoints(spec) in which every
\* endpoint sits in the group named nameOf(endpoint), extraction order is kept
\* inside each group, and no group is empty.
PartitionByName(nameOf(_)) ==
    LET eps == extractEndpoints(spec)
    IN  /\ \A g \in 1..Len(groups) : Len(groups[g].endpoints) > 0
        /\ \A g, h \in 1..Len(groups) : g # h => groups[g].name # groups[h].name
        /\ \A k \in 1..Len(eps) :
              LET places == {gj \in {<<g, j>> : g \in 1..Len(groups), j \in 1..Len(eps)} :
                                /\ gj[2] <= Len(groups[gj[1]].endpoints)
                                /\ groups[gj[1]].endpoints[gj[2]] = eps[k]}
              IN  /\ Cardinality(places) = 1
                  /\ \A gj \in places : groups[gj[1]].name = nameOf(eps[k])
        /\ \A g \in 1..Len(groups) :
              /\ \A j \in 1..Len(groups[g].endpoints) :
                    ExtractedPosition(groups[g].endpoints[j]) > 0
              /\ \A i, j \in 1..Len(groups[g].endpoints) :
                    i < j => ExtractedPosition(groups[g].endpoints[i])
                                < ExtractedPosition(groups[g].endpoints[j])

\* The first declared tag, "Other" when the operationIn declares no tag.
DeclaredFirstTag(e) ==
    IF e.operation.hasTags /\ e.operation.tags # <<>>
    THEN e.operation.tags[1]
    ELSE "Other"

\* The first declared tag, "Other" when the operationIn declares no tag or its
\* first tag is the empty string.
NonEmptyFirstTag(e) ==
    IF e.operation.hasTags /\ e.operation.tags # <<>> /\ e.operation.tags[1] # ""
    THEN e.operation.tags[1]
    ELSE "Other"

\* C2 as stated: groupEndpointsByTag returns a partition of the extracted
\* endpoints, each endpoint in the group named by its first declared tag, or
\* "Other" when it declares no tag; extraction order is kept inside a group
\* and no group is empty.
C2_AsStated == "group" \in phase => PartitionByName(DeclaredFirstTag)

\* C2 amended: as C2, with "Other" also naming the group of an endpoint whose
\* first declared tag is the empty string.
C2_GroupsPartition == "group" \in phase => PartitionByName(NonEmptyFirstTag)

\* C2 witness: two groups have been built, one of them "Other" holding both
\* an untagged endpoint and one whose first tag is empty.
C2_Witness ==
    /\ "group" \in phase
    /\ Len(groups) >= 2
    /\ \E g \in 1..Len(groups) :
          /\ groups[g].name = "Other"
          /\ \E i, j \in 1..Len(groups[g].endpoints) :
                /\ groups[g].endpoints[i].operation.tags = <<"">>
                /\ groups[g].endpoints[j].operation.tags = <<>>

\* Position of a group name among the names of spec.tags, 0 when undeclared.
DeclaredPosition(name) ==
    LET hits == IF spec.hasTags
                THEN {i \in 1..Len(spec.tags) : spec.tags[i].name = name}
                ELSE {}
    IN  IF hits = {} THEN 0 ELSE CHOOSE i \in hits : \A j \in hits : i <= j

\* Position in the extraction of the first endpoint of a group.
FirstSeen(g) ==
    LET at == {ExtractedPosition(g.endpoints[j]) : j \in 1..Len(g.endpoints)}
    IN  CHOOSE k \in at : \A l \in at : k <= l

\* C3: groups whose name is declared in spec.tags come first, in the order of
\* spec.tags; groups whose name is not declared come after every declared
\* one, in the order in which their first endpoint was extracted.
C3_GroupOrder ==
    "group" \in phase =>
        \A g, h \in 1..Len(groups) :
            g < h =>
                LET dg == DeclaredPosition(groups[g].name)
                    dh == DeclaredPosition(groups[h].name)
                IN  /\ dg = 0 => dh = 0
                    /\ (dg > 0 /\ dh > 0) => dg < dh
                    /\ (dg = 0 /\ dh = 0) => FirstSeen(groups[g]) < FirstSeen(groups[h])

\* C3 witness: one declared group placed before two undeclared ones although
\* an undeclared group was seen first, the undeclared ones not alphabetical.
C3_Witness ==
    /\ "group" \in phase
    /\ Len(groups) = 3
    /\ DeclaredPosition(groups[1].name) > 0
    /\ groups[2].name = "Other"
    /\ groups[3].name = "Health"
    /\ FirstSeen(groups[1]) > FirstSeen(groups[2])

(***************************************************************************)
(* Input space of the example synthesizer.                                 *)
(***************************************************************************)
\* Example values: the four falsy JSON values and some truthy ones.
FalsyExamples ==
    {JSON("number", "0"), JSON("string", ""), JSON("boolean", "false"), JNull}

TruthyExamples ==
    {JSON("number", "42"), JSON("string", "abc"), JSON("array", "[]")}

\* Schemas of properties: every type, the date-time format, a reference, and
\* own examples.
PropertySchemas ==
    {Typed(t) : t \in {"", "string", "number", "integer", "boolean", "array", "object"}}
    \cup {Formatted("string", "date-time"), RefTo(SchemaPrefix \o <<"A">>)}
    \cup {WithExample("boolean", e) : e \in FalsyExamples \cup {JSON("string", "abc")}}

PropertyNames == <<"ok", "id", "at", "tags">>

\* schema.properties: up to MaxProps entries, named in key order.
PropertyLists ==
    {[i \in 1..Len(ps) |-> [name |-> PropertyNames[i], schema |-> ps[i]]] :
        ps \in SeqsUpTo(PropertySchemas, MaxProps)}

\* $ref strings: well formed (to A, to B, to the absent M), empty, without
\* the prefix, with the parameter prefix, with the prefix not at the start.
SchemaRefs ==
    {SchemaPrefix \o <<n>> : n \in {"A", "B", "M"}}
    \cup {<<>>, <<"A">>, ParameterPrefix \o <<"A">>, <<"x">> \o SchemaPrefix \o <<"A">>}

\* The schema handed to generateExampleResponse (<<>> is undefined).
RootSchemas ==
    {<<>>}
    \cup {<<ObjectOf(ps)>> : ps \in PropertyLists}
    \cup {<<[ObjectOf(<<[name |-> "ok", schema |-> Typed("boolean")]>>)
                EXCEPT !.hasExample = TRUE, !.example = e]>> :
             e \in FalsyExamples \cup TruthyExamples}
    \cup {<<WithExample(t, e)>> :
             t \in {"", "string"}, e \in FalsyExamples \cup TruthyExamples}
    \cup {<<Typed(t)>> : t \in {"", "string", "object", "array"}}
    \cup {<<[Typed("") EXCEPT !.hasProperties = TRUE]>>}
    \cup {<<ArrayOf(<<i>>)>> :
             i \in {Typed("string"), WithExample("", JSON("number", "42")),
                    RefTo(SchemaPrefix \o <<"A">>), ArrayOf(<<>>)}}
    \cup {<<RefTo(r)>> : r \in SchemaRefs}
    \cup {<<[RefTo(r) EXCEPT !.hasExample = TRUE, !.example = JSON("number", "42")]>> :
             r \in {SchemaPrefix \o <<"M">>, SchemaPrefix \o <<"A">>}}

\* components.schemas.A and components.schemas.B when present: plain
\* schemas, references onward (to each other, to themselves, to the absent
\* M) and an array of references.
SchemasA ==
    {ObjectOf(<<[name |-> "id", schema |-> Typed("integer")]>>),
     WithExample("object", JSON("number", "0")),
     WithExample("object", JSON("string", "abc")),
     RefTo(SchemaPrefix \o <<"B">>),
     RefTo(SchemaPrefix \o <<"M">>),
     RefTo(SchemaPrefix \o <<"A">>),
     RefTo(<<"B">>),
     ArrayOf(<<RefTo(SchemaPrefix \o <<"A">>)>>),
     [ArrayOf(<<RefTo(SchemaPrefix \o <<"A">>)>>)
         EXCEPT !.hasExample = TRUE, !.example = JSON("array", "[]")]}

SchemasB ==
    {Typed("string"),
     WithExample("", JSON("boolean", "false")),
     RefTo(SchemaPrefix \o <<"A">>),
     RefTo(SchemaPrefix \o <<"M">>)}

\* components.schemas: each of A and B present or not.
SchemaMaps ==
    {[n \in {} |-> Typed("")]}
    \cup {[n \in {<<"A">>} |-> a] : a \in SchemasA}
    \cup {[n \in {<<"B">>} |-> b] : b \in SchemasB}
    \cup {[n \in {<<"A">>, <<"B">>} |-> IF n = <<"A">> THEN ab[1] ELSE ab[2]] :
             ab \in SchemasA \X SchemasB}

(***************************************************************************)
(* Specification of the example synthesizer: a document and a response     *)
(* schema are chosen and generateExampleResponse runs on them.             *)
(***************************************************************************)
GenInit ==
    /\ spec \in {[schemas |-> m] : m \in SchemaMaps}
    /\ phase = {}
    /\ endpoints = <<>>
    /\ groups = <<>>
    /\ ParamIdle
    /\ play = PlayIdle
    /\ gen \in {[GenIdle EXCEPT !.pc = "call", !.root = r, !.call = r] : r \in RootSchemas}
    /\ LiveIdle

GenNext ==
    \/ GenUndefined
    \/ GenFollowRef
    \/ GenExample
    \/ GenArrayItems
    \/ GenArrayNoItems
    \/ GenObject
    \/ GenFallback
    \/ ResolveRef

GenSpec == GenInit /\ [][GenNext]_vars

\* generateExampleResponse is synchronous: once called, an invocation runs
\* its branch.
GenStep ==
    \/ GenUndefined
    \/ GenFollowRef
    \/ GenExample
    \/ GenArrayItems
    \/ GenArrayNoItems
    \/ GenObject
    \/ GenFallback

\* The object branch calls nothing, so of the object schemas those with at
\* most one property are kept here.
GenFairInit ==
    /\ GenInit
    /\ gen.root # <<>> => Len(gen.root[1].properties) <= 1

GenFairSpec == GenFairInit /\ [][GenNext]_vars /\ WF_vars(GenStep)

(***************************************************************************)
(* Claims about schema resolution and example synthesis.                   *)
(***************************************************************************)
\* The schema's $ref is the prefix #/components/schemas/ followed by a name
\* that components.schemas holds.
NamesPresentSchema(schema) ==
    /\ schema.hasRef
    /\ Len(schema.ref) >= 21
    /\ SubSeq(schema.ref, 1, 21) = SchemaPrefix
    /\ SubSeq(schema.ref, 22, Len(schema.ref)) \in DOMAIN spec.schemas

ReferencedSchema(schema) == spec.schemas[SubSeq(schema.ref, 22, Len(schema.ref))]

\* The schema reached from a schema by following references for as long as
\* they name present schemas, at most hops times.
RECURSIVE ChainEnd(_, _)
ChainEnd(schema, hops) ==
    IF hops = 0 \/ ~NamesPresentSchema(schema) THEN schema
    ELSE ChainEnd(ReferencedSchema(schema), hops - 1)

\* The call on the schema handed in has resolved it.
RootResolved == gen.root # <<>> /\ gen.resolved # <<>>

C5_UnresolvableReturnsInput ==
    (RootResolved /\ gen.root[1].hasRef /\ ~NamesPresentSchema(gen.root[1]))
        => gen.resolved = gen.root

\* The value C8 gives a property without own example.
C8_Default(prop) ==
    CASE prop.type = "string" /\ prop.format = "date-time" ->
            JSON("string", "2024-01-01T00:00:00Z")
      [] prop.type = "string" /\ prop.format # "date-time" -> JSON("string", "string")
      [] prop.type \in {"number", "integer"} -> JSON("number", "0")
      [] prop.type = "boolean" -> JSON("boolean", "true")
      [] prop.type = "array" -> JSON("array", "[]")
      [] OTHER -> JSON("null", "null")

\* C7: an example on the resolved schema, of any JSON value, is the result
\* verbatim, and an example on a property of an object schema is the value
\* of that property.
C7_ExampleOverrides ==
    (gen.pc = "done" /\ RootResolved) =>
        LET schema == gen.resolved[1]
        IN  /\ schema.hasExample => gen.result = stringify(schema.example)
            /\ (~schema.hasExample /\ schema.type = "object" /\ schema.hasProperties) =>
                  \E entries \in [1..Len(schema.properties) ->
                                     [name : Range(PropertyNames),
                                      value : FalsyExamples \cup TruthyExamples
                                              \cup {C8_Default(q) : q \in PropertySchemas}]] :
                      /\ gen.result = stringifyObject(entries)
                      /\ \A i \in 1..Len(entries) :
                            schema.properties[i].schema.hasExample =>
                                entries[i].value = schema.properties[i].schema.example

\* C8: for an object schema with properties and no own example the result
\* has exactly the declared property names, in declaration order, and every
\* property without own example has the default of its type: "string" (the
\* fixed instant for date-time), 0, true, [] or null.
C8_ObjectDefaults ==
    (gen.pc = "done" /\ RootResolved) =>
        LET schema == gen.resolved[1]
        IN  (~schema.hasExample /\ schema.type = "object" /\ schema.hasProperties) =>
                gen.result = stringifyObject(
                    [i \in 1..Len(schema.properties) |->
                        [name |-> schema.properties[i].name,
                         value |-> IF schema.properties[i].schema.hasExample
                                   THEN schema.properties[i].schema.example
                                   ELSE C8_Default(schema.properties[i].schema)]])

\* C8 witness: an object with an array property and a $ref property has been
\* synthesized.
C8_Witness ==
    /\ gen.pc = "done"
    /\ RootResolved
    /\ ~gen.resolved[1].hasExample
    /\ gen.resolved[1].type = "object"
    /\ Len(gen.resolved[1].properties) = 2
    /\ gen.resolved[1].properties[1].schema.type = "array"
    /\ gen.resolved[1].properties[2].schema.hasRef
    /\ gen.result = "{\n  \"ok\": [],\n  \"id\": null\n}"

(***************************************************************************)
(* Input space and specification of parameter resolution: a document and   *)
(* an operation are chosen and resolveParameters is applied.                 *)
(***************************************************************************)
Literal(name, in) == Parameter(FALSE, <<>>, name, in, <<>>, <<>>, <<>>)
ParameterRef(ref) == Parameter(TRUE, ref, <<>>, "", <<>>, <<>>, <<>>)

\* Entries of operationIn.parameters: literals, a literal with an empty $ref,
\* and references: well formed (to A, to B, to the absent M), without the
\* prefix, with the schema prefix.
DeclaredParameters ==
    {Literal(<<"i", "d">>, "path"), Literal(<<"q">>, "query"),
     [Literal(<<"q">>, "header") EXCEPT !.hasRef = TRUE]}
    \cup {ParameterRef(ParameterPrefix \o <<n>>) : n \in {"A", "B", "M"}}
    \cup {ParameterRef(<<"A">>), ParameterRef(SchemaPrefix \o <<"A">>)}

\* components.parameters: A and B each present or not; A may itself be a
\* reference.
ParameterMaps ==
    LET as == {Literal(<<"l", "i", "m", "i", "t">>, "query"),
               ParameterRef(ParameterPrefix \o <<"B">>),
               ParameterRef(ParameterPrefix \o <<"M">>)}
        bs == {Literal(<<"i", "d">>, "path")}
    IN  {[n \in {} |-> Literal(<<>>, "")]}
        \cup {[n \in {<<"A">>} |-> a] : a \in as}
        \cup {[n \in {<<"B">>} |-> b] : b \in bs}
        \cup {[n \in {<<"A">>, <<"B">>} |-> IF n = <<"A">> THEN ab[1] ELSE ab[2]] :
                 ab \in as \X bs}

ParamInit ==
    /\ spec \in {[parameters |-> m] : m \in ParameterMaps}
    /\ operationIn \in
          {<<[hasParameters |-> FALSE, parameters |-> <<>>]>>}
          \cup {<<[hasParameters |-> TRUE, parameters |-> ps]>> :
                   ps \in SeqsUpTo(DeclaredParameters, MaxParams)}
    /\ parameters = <<>>
    /\ phase = {}
    /\ endpoints = <<>>
    /\ groups = <<>>
    /\ gen = GenIdle
    /\ play = PlayIdle
    /\ LiveIdle

ParamNext == ResolveParameters

ParamSpec == ParamInit /\ [][ParamNext]_vars

(***************************************************************************)
(* Claims about parameter resolution.                                      *)
(***************************************************************************)
\* The entry is a reference: it carries a non-empty $ref.
IsReference(p) == p.hasRef /\ p.ref # <<>>

\* The entry is a reference with the prefix #/components/parameters/ whose
\* name components.parameters holds.
NamesPresentParameter(p) ==
    /\ IsReference(p)
    /\ Len(p.ref) >= 24
    /\ SubSeq(p.ref, 1, 24) = ParameterPrefix
    /\ SubSeq(p.ref, 25, Len(p.ref)) \in DOMAIN spec.parameters

\* C6: resolveParameters returns, in declaration order, one Parameter for
\* each declared entry that is a literal or a reference naming a present
\* parameter, drops every other reference, and returns no unresolved
\* reference.  (An entry whose $ref is empty counts as a literal.)
C6_ResolveParameters ==
    parameters # <<>> =>
        LET kept == SelectSeq(operationIn[1].parameters,
                        LAMBDA p : ~IsReference(p) \/ NamesPresentParameter(p))
            result == parameters[1]
        IN  /\ Len(result) = Len(kept)
            /\ \A i \in 1..Len(kept) :
                  result[i] = IF IsReference(kept[i])
                              THEN spec.parameters[SubSeq(kept[i].ref, 25, Len(kept[i].ref))]
                              ELSE kept[i]
            /\ \A i \in 1..Len(result) : ~IsReference(result[i])


(***************************************************************************)
(* Input space and specification of the Playground: a document is chosen,  *)
(* the panel is mounted on one of its endpoints, and the user edits        *)
(* parameter values and the body and switches between endpoints.           *)
(***************************************************************************)
\* Characters the user types into a parameter field.
ValueCharacters == {"4", "$", "&"}

\* What one edit of a field holding old can leave in it: a character typed
\* at the end, the last character deleted, or the field cleared.
Edited(old) ==
    (IF Len(old) < MaxValueLen THEN {Append(old, c) : c \in ValueCharacters} ELSE {})
    \cup (IF old # <<>> THEN {SubSeq(old, 1, Len(old) - 1)} ELSE {})
    \cup {<<>>}

BodyTexts == {<<>>, <<"{", "}">>}

IdName == <<"i", "d">>
LimitName == <<"l", "i", "m", "i", "t">>

PlayOperation(ps, body) ==
    [hasParameters |-> TRUE, parameters |-> ps, hasRequestBody |-> body]

\* The endpoints of the document the panel is used on.
PlayEndpoints ==
    {[path |-> <<"/", "m", "a", "r", "k", "e", "t", "s", "/", "{", "i", "d", "}">>,
      method |-> "get",
      operation |-> PlayOperation(<<ParameterRef(ParameterPrefix \o <<"B">>)>>, FALSE)],
     [path |-> <<"/", "s", "e", "a", "r", "c", "h">>,
      method |-> "get",
      operation |-> PlayOperation(<<Literal(<<"a">>, "query"), Literal(<<"b">>, "query")>>,
                                 FALSE)],
     [path |-> <<"/", "m", "a", "r", "k", "e", "t", "s", "/", "{", "i", "d", "}", "/",
                 "b", "i", "d", "s">>,
      method |-> "post",
      operation |-> PlayOperation(
          <<[Literal(IdName, "path") EXCEPT !.example = <<<<"4", "4">>>>],
            ParameterRef(ParameterPrefix \o <<"M">>),
            [Literal(LimitName, "query") EXCEPT !.schemaExample = <<<<>>>>,
                                                !.schemaDefault = <<<<"4">>>>]>>,
          TRUE)],
     [path |-> <<"/", "p", "i", "n", "g">>,
      method |-> "get",
      operation |-> [hasParameters |-> FALSE, parameters |-> <<>>,
                    hasRequestBody |-> FALSE]]}

\* 'https://d.io'
ServerUrl == <<"h", "t", "t", "p", "s", ":", "/", "/", "d", ".", "i", "o">>

PlaySpecs ==
    {[servers |-> sv,
      parameters |-> [n \in {<<"B">>} |-> Literal(IdName, "path")]] :
        sv \in {<<>>, <<[url |-> ServerUrl]>>}}

\* The state of a Playground just mounted on an endpoint.
Mounted(s, endpoint) ==
    [mounted |-> TRUE,
     endpoint |-> endpoint,
     params |-> getInitialParams(s, endpoint),
     requestBody |-> <<>>,
     loading |-> FALSE,
     response |-> <<>>,
     error |-> <<>>,
     pendingReset |-> FALSE]

PlayInit ==
    /\ spec \in PlaySpecs
    /\ play \in {Mounted(spec, e) : e \in PlayEndpoints}
    /\ phase = {}
    /\ endpoints = <<>>
    /\ groups = <<>>
    /\ gen = GenIdle
    /\ ParamIdle
    /\ LiveIdle

PlayNext ==
    \/ \E name \in {IdName, LimitName, <<"a">>, <<"b">>} :
          \E value \in Edited(paramValue(play.params, name)) : UpdateParam(name, value)
    \/ \E text \in BodyTexts : SetRequestBody(text)
    \/ \E endpoint \in PlayEndpoints : SelectEndpoint(endpoint)
    \/ ResetEffect

PlaySpec == PlayInit /\ [][PlayNext]_vars

(***************************************************************************)
(* Claims about the request URL.                                           *)
(***************************************************************************)
\* The URL the panel shows and requests in the current state.
CurrentUrl == buildUrl(spec, play.endpoint, play.params)

\* The value the user has supplied for a parameter, <<>> when none.
Supplied(name) == IF name \in DOMAIN play.params THEN play.params[name] ELSE <<>>

\* The base URL: the first declared server, or the empty string.
ClaimedBase == IF spec.servers = <<>> THEN <<>> ELSE spec.servers[1].url

\* The path template with every placeholder {name} of a resolved path
\* parameter replaced by the supplied value, and left in place when the value
\* is empty.
RECURSIVE ClaimedPath(_, _)
ClaimedPath(template, i) ==
    IF i > Len(template) THEN <<>>
    ELSE LET names == {p.name : p \in Range(pathParams(spec, play.endpoint))}
             here == {n \in names :
                         /\ i + Len(n) + 1 <= Len(template)
                         /\ SubSeq(template, i, i + Len(n) + 1) = <<"{">> \o n \o <<"}">>}
         IN  IF here = {} THEN <<template[i]>> \o ClaimedPath(template, i + 1)
             ELSE LET n == CHOOSE m \in here : TRUE
                  IN  (IF Supplied(n) # <<>> THEN Supplied(n)
                       ELSE <<"{">> \o n \o <<"}">>)
                      \o ClaimedPath(template, i + Len(n) + 2)

\* One name=percent-encoded-value pair per resolved query parameter with a
\* non-empty value, in declaration order, joined with &, after a ?; nothing
\* when there is no pair.
ClaimedQuery ==
    LET withValue == SelectSeq(queryParams(spec, play.endpoint),
                               LAMBDA p : Supplied(p.name) # <<>>)
        pair(k) == withValue[k].name \o <<"=">> \o encodeURIComponent(Supplied(withValue[k].name))
        RECURSIVE upTo(_)
        upTo(k) == IF k = 0 THEN <<"?">>
                   ELSE IF k = 1 THEN upTo(0) \o pair(1)
                   ELSE upTo(k - 1) \o <<"&">> \o pair(k)
    IN  IF withValue = <<>> THEN <<>> ELSE upTo(Len(withValue))

\* C9: the request URL is the base URL, then the path template with the
\* placeholder of every resolved path parameter replaced by its non-empty
\* supplied value or left in place, then the query string.
C9_RequestUrl ==
    play.mounted =>
        CurrentUrl = ClaimedBase
                     \o ClaimedPath(play.endpoint.path, 1)
                     \o queryString(spec, play.endpoint, play.params)

\* C10: the query string of the request URL holds one
\* name=percent-encoded-value pair for exactly the resolved query parameters
\* with a non-empty value, in declaration order, joined with &, after a ?
\* only when there is a pair; a parameter without value is not emitted.
C10_QueryString ==
    play.mounted =>
        /\ queryString(spec, play.endpoint, play.params) = ClaimedQuery
        /\ CurrentUrl = baseUrl(spec)
                        \o builtPath(play.endpoint.path,
                                     pathParams(spec, play.endpoint), play.params, 1)
                        \o ClaimedQuery

\* C10 witness: with a = "4&" and b empty the URL ends in /search?a=4%26.
C10_Witness ==
    /\ play.mounted
    /\ Supplied(<<"a">>) = <<"4", "&">>
    /\ Supplied(<<"b">>) = <<>>
    /\ CurrentUrl = baseUrl(spec) \o <<"/", "s", "e", "a", "r", "c", "h", "?",
                                       "a", "=", "4", "%", "2", "6">>

(***************************************************************************)
(* Input space and specification of the live test call: the panel is       *)
(* mounted on an endpoint with a credential, and the user edits, switches  *)
(* endpoints and presses the try-it button while the requests sent resolve *)
(* or fail in any order.                                                   *)
(***************************************************************************)
OrdersPath == <<"/", "o", "r", "d", "e", "r", "s">>

TryEndpoints ==
    {[path |-> <<"/", "m", "a", "r", "k", "e", "t", "s", "/", "{", "i", "d", "}">>,
      method |-> "get",
      operation |-> PlayOperation(<<Literal(IdName, "path")>>, FALSE)],
     [path |-> OrdersPath,
      method |-> "post",
      operation |-> PlayOperation(<<>>, TRUE)],
     [path |-> OrdersPath,
      method |-> "put",
      operation |-> PlayOperation(<<>>, TRUE)],
     [path |-> OrdersPath,
      method |-> "delete",
      operation |-> PlayOperation(<<>>, FALSE)]}

\* The credential handed to the panel: none, or a key.
ApiKeys == {"", "dphi_live_d2c1"}

\* Status codes the server answers with.
Statuses == {200, 404, 500}

TryInit ==
    /\ spec \in {s \in PlaySpecs : s.servers # <<>>}
    /\ apiKey \in ApiKeys
    /\ play \in {Mounted(spec, e) : e \in TryEndpoints}
    /\ requests = <<>>
    /\ session = SessionIdle
    /\ phase = {}
    /\ endpoints = <<>>
    /\ groups = <<>>
    /\ gen = GenIdle
    /\ ParamIdle

TryNext ==
    \/ \E value \in {<<>>, <<"4">>} : UpdateParam(IdName, value)
    \/ \E text \in BodyTexts : SetRequestBody(text)
    \/ \E endpoint \in TryEndpoints : SelectEndpoint(endpoint)
    \/ ResetEffect
    \/ ExecuteRequest
    \/ \E i \in 1..MaxInFlight, status \in Statuses, json \in BOOLEAN :
          FetchResolves(i, status, json)
    \/ \E i \in 1..MaxInFlight : FetchRejects(i)
    \/ \E i \in 1..MaxInFlight : BodyResolves(i)
    \/ \E i \in 1..MaxInFlight : JsonRejects(i)
    \/ \E i \in 1..MaxInFlight : BodyRejects(i)

TrySpec == TryInit /\ [][TryNext]_vars

(***************************************************************************)
(* Claims about the live test call.                                        *)
(***************************************************************************)
\* The step is a call of executeRequest: one more request is under way.
Issues == Len(requests') = Len(requests) + 1

\* The request a call of executeRequest has just sent.
Issued == requests'[Len(requests')]

\* The command rendered in this state.
CurrentCurl == generateCurl(spec, play.endpoint, play.params, play.requestBody, apiKey)

\* The headers of a rendered command and of a sent request, as sets of
\* (name, value) pairs.
CurlHeaders(curl) == {<<h.name, h.value>> : h \in Range(curl.H)}
SentHeaders(request) ==
    {<<n, request.options.headers[n]>> : n \in DOMAIN request.options.headers}

\* C11: the command rendered when the try-it button is pressed carries the
\* method, the URL, the set of headers and the body presence of the request
\* that executeRequest sends from the same state.
C11_CurlInSync ==
    [][Issues =>
          /\ CurrentCurl.X = Issued.options.method
          /\ CurrentCurl.url = Issued.url
          /\ CurlHeaders(CurrentCurl) = SentHeaders(Issued)
          /\ (CurrentCurl.d # <<>>) = (Issued.options.body # <<>>)]_vars

\* The request that completes in a step that takes exactly one request out
\* of requests.
Completes == Len(requests') = Len(requests) - 1
Completed == requests[CHOOSE i \in 1..Len(requests) : requests' = without(i)]

\* C12: the response or error shown while an endpoint is selected was
\* produced by a request issued for that endpoint.
C12_OutcomeOfSelectedEndpoint ==
    (play.mounted /\ ~play.pendingReset) =>
        /\ play.response # <<>> =>
              play.response[1].producedFor = endpointKey(play.endpoint)
        /\ play.error # <<>> =>
              play.error[1].producedFor = endpointKey(play.endpoint)

\* C14: a call whose HTTP exchange completed, with any status, ends in a
\* response carrying that status, with a JSON body when the content-type
\* says JSON and the raw text otherwise, and no error; an error outcome
\* comes from a transport failure only, and then no response is recorded.
C14_StatusIsNoError ==
    [][Completes =>
          \/ /\ play'.error # <<>>
             /\ play'.error[1].message = NetworkError
             /\ play'.response = <<>>
          \/ /\ Completed.stage = "body"
             /\ play'.error = <<>>
             /\ play'.response # <<>>
             /\ play'.response[1].status = Completed.status
             /\ play'.response[1].body = IF Completed.json THEN "json" ELSE "text"]_vars

\* C15: the request sent carries a body exactly when the method is POST,
\* PUT or PATCH and the entered body text is not empty, and the body is then
\* the entered text.
C15_BodyAttached ==
    [][Issues =>
          /\ (Issued.options.body # <<>>)
                = (/\ Issued.options.method \in {"POST", "PUT", "PATCH"}
                   /\ play.requestBody # <<>>)
          /\ Issued.options.body # <<>> => Issued.options.body = <<play.requestBody>>]_vars

\* C15 witness: a PUT request is under way with the entered text as body
\* while a DELETE or GET request would carry none.
C15_Witness ==
    /\ requests # <<>>
    /\ requests[1].options.method = "PUT"
    /\ requests[1].options.body = <<<<"{", "}">>>>
    /\ play.requestBody = <<"{", "}">>

\* C16: every request sent with a body has Content-Type: application/json;
\* X-API-Key is set, with the credential as value, exactly when the
\* credential is not empty; no other header is set.
C16_Headers ==
    \A i \in 1..Len(requests) :
        LET headers == requests[i].options.headers
        IN  /\ DOMAIN headers \subseteq {"Content-Type", "X-API-Key"}
            /\ requests[i].options.body # <<>> =>
                  /\ "Content-Type" \in DOMAIN headers
                  /\ headers["Content-Type"] = "application/json"
            /\ ("X-API-Key" \in DOMAIN headers) = (apiKey # "")
            /\ "X-API-Key" \in DOMAIN headers => headers["X-API-Key"] = apiKey

\* C16 witness: a request without credential is under way, with a body.
C16_Witness ==
    /\ apiKey = ""
    /\ requests # <<>>
    /\ requests[1].options.body # <<>>
    /\ DOMAIN requests[1].options.headers = {"Content-Type"}

\* C17: at most one request is under way, and loading is true exactly
\* while one is.
C17_SingleInFlight ==
    /\ Len(requests) <= 1
    /\ play.loading = (requests # <<>>)

\* C17 witness: a request issued for one endpoint is still under way after
\* the user has switched to another endpoint.
C17_Witness ==
    /\ Len(requests) = 1
    /\ ~play.pendingReset
    /\ requests[1].issuedFor # endpointKey(play.endpoint)
    /\ play.loading

\* C19: response and error are never both set and both are unset while
\* loading is true; a change of the endpoint leaves the body text and the
\* loading flag as they are, and the reset that follows it clears response
\* and error and gives the parameters the values of a fresh panel, again
\* leaving body text and loading flag as they are.
C19_PanelState ==
    /\ [](play.mounted =>
            /\ ~(play.response # <<>> /\ play.error # <<>>)
            /\ play.loading => (play.response = <<>> /\ play.error = <<>>))
    /\ [][(play.mounted /\ play'.endpoint # play.endpoint) =>
            /\ play'.requestBody = play.requestBody
            /\ play'.loading = play.loading]_vars
    /\ [][(play.mounted /\ play.pendingReset /\ ~play'.pendingReset) =>
            /\ play'.response = <<>>
            /\ play'.error = <<>>
            /\ play'.params = Mounted(spec, play'.endpoint).params
            /\ play'.requestBody = play.requestBody
            /\ play'.loading = play.loading]_vars

\* C19 witness: with a body text entered and a POST request under way the
\* user has switched to a GET endpoint and the reset has run: loading is
\* still true, the body text is still there, response and error are unset.
C19_Witness ==
    /\ play.mounted
    /\ ~play.pendingReset
    /\ play.endpoint.method = "get"
    /\ play.requestBody # <<>>
    /\ play.response = <<>>
    /\ play.error = <<>>
    /\ play.loading
    /\ requests[1].issuedFor.method = "post"

(***************************************************************************)
(* The document loader useOpenAPI and the App that uses it.  spec is the   *)
(* document the server holds at ./openapi.json; session holds the state of *)
(* the hook (spec, loading, error), the position of fetchSpec, the number  *)
(* of fetches issued, the status of the response and the endpoint selected *)
(* in App.                                                                 *)
(***************************************************************************)
\* The first render of App: useState(null), useState(true), useState(null)
\* in useOpenAPI and useState(null) for selectedEndpoint; the effect has not
\* run yet.
SessionStart ==
    [stage |-> "mounted", spec |-> <<>>, loading |-> TRUE, error |-> <<>>,
     fetches |-> 0, status |-> 0, selectedEndpoint |-> <<>>]

\* Mutation: the status of the response is not looked at.
responseOkAlways(status) == TRUE

\* response.ok
responseOk(status) == status >= 200 /\ status <= 299

\* useEffect(() => { fetchSpec() }, []): the effect of the first render
\* calls fetch('./openapi.json').
FetchSpec ==
    /\ session.stage = "mounted"
    /\ session' = [session EXCEPT !.stage = "fetch", !.fetches = @ + 1]
    /\ UNCHANGED <<spec, indexVars, gen, paramVars, play, apiKey, requests>>

\* catch (err) { setError(err.message) } finally { setLoading(false) }
specCaught(message, status) ==
    session' = [session EXCEPT !.stage = "done",
                               !.status = status,
                               !.error = <<message>>,
                               !.loading = FALSE]

\* await fetch('./openapi.json') rejects.
SpecFetchRejects ==
    /\ session.stage = "fetch"
    /\ specCaught(NetworkError, 0)
    /\ UNCHANGED <<spec, indexVars, gen, paramVars, play, apiKey, requests>>

\* await fetch('./openapi.json') resolves: if (!response.ok) throw new
\* Error('Failed to fetch OpenAPI spec: ' + response.status), else
\* response.json() is awaited.
SpecFetchResolves(status) ==
    /\ session.stage = "fetch"
    /\ IF responseOk(status)
       THEN session' = [session EXCEPT !.stage = "json", !.status = status]
       ELSE specCaught("Failed to fetch OpenAPI spec", status)
    /\ UNCHANGED <<spec, indexVars, gen, paramVars, play, apiKey, requests>>

\* await response.json() resolves with the document: setSpec(data),
\* setError(null), finally { setLoading(false) }.
SpecJsonResolves ==
    /\ session.stage = "json"
    /\ session' = [session EXCEPT !.stage = "done",
                                  !.spec = <<spec>>,
                                  !.error = <<>>,
                                  !.loading = FALSE]
    /\ UNCHANGED <<spec, indexVars, gen, paramVars, play, apiKey, requests>>

\* await response.json() rejects: the body is no JSON text, or the
\* connection broke.
SpecJsonRejects ==
    /\ session.stage = "json"
    /\ specCaught(SyntaxError, session.status)
    /\ UNCHANGED <<spec, indexVars, gen, paramVars, play, apiKey, requests>>

\* App renders Sidebar and the main view when loading is false and error
\* is null; Sidebar renders the groups when spec is set.
sidebarShown ==
    /\ session.stage # "idle"
    /\ ~session.loading
    /\ session.error = <<>>
    /\ session.spec # <<>>

\* onSelectEndpoint(endpoint) on an endpoint of a group of the Sidebar.
AppSelectEndpoint(g, k) ==
    /\ sidebarShown
    /\ g \in 1..Len(groupEndpointsByTag(session.spec[1]))
    /\ k \in 1..Len(groupEndpointsByTag(session.spec[1])[g].endpoints)
    /\ session' = [session EXCEPT !.selectedEndpoint =
                      <<groupEndpointsByTag(session.spec[1])[g].endpoints[k]>>]
    /\ UNCHANGED <<spec, indexVars, gen, paramVars, play, apiKey, requests>>

\* onSelectEndpoint(null) on the logo.
AppSelectNone ==
    /\ sidebarShown
    /\ session' = [session EXCEPT !.selectedEndpoint = <<>>]
    /\ UNCHANGED <<spec, indexVars, gen, paramVars, play, apiKey, requests>>

(***************************************************************************)
(* Input space and specification of a session: a document is on the       *)
(* server, App is rendered, the fetch resolves or fails, and the user      *)
(* selects endpoints once the Sidebar is shown.                            *)
(***************************************************************************)
\* The documents served: those of the indexer's input space with at most
\* one path.
ServedDocuments ==
    {[hasTags |-> d.hasTags, tags |-> d.tags, paths |-> ps] :
        d \in DeclaredTags, ps \in SeqsUpTo([path : PathNames, item : PathItems], 1)}

\* Status codes the server answers the fetch of the document with.
SpecStatuses == {200, 204, 404, 500}

LoadInit ==
    /\ spec \in ServedDocuments
    /\ session = SessionStart
    /\ apiKey = ""
    /\ requests = <<>>
    /\ play = PlayIdle
    /\ phase = {}
    /\ endpoints = <<>>
    /\ groups = <<>>
    /\ gen = GenIdle
    /\ ParamIdle

LoadNext ==
    \/ FetchSpec
    \/ SpecFetchRejects
    \/ \E status \in SpecStatuses : SpecFetchResolves(status)
    \/ SpecJsonResolves
    \/ SpecJsonRejects
    \/ \E g \in 1..Len(groupEndpointsByTag(spec)) :
          \E k \in 1..Len(groupEndpointsByTag(spec)[g].endpoints) :
              AppSelectEndpoint(g, k)
    \/ AppSelectNone

LoadSpec == LoadInit /\ [][LoadNext]_vars

(***************************************************************************)
(* Claims about the document loader.                                       *)
(***************************************************************************)
\* The state useOpenAPI returns.
Hook == <<session.spec, session.loading, session.error>>
Ready == session.spec # <<>> /\ session.error = <<>>
Failed == session.error # <<>> /\ session.spec = <<>>

\* C13: one fetch is issued; while loading, spec and error are unset; once
\* loading is false the state is ready or failed, failed whenever the fetch
\* was rejected or answered with a status outside 200..299, and neither the
\* state of the hook nor the number of fetches changes again.
C13_LoaderStates ==
    /\ [](/\ session.fetches <= 1
          /\ ~(session.spec # <<>> /\ session.error # <<>>)
          /\ session.loading => (session.spec = <<>> /\ session.error = <<>>)
          /\ ~session.loading =>
                /\ session.fetches = 1
                /\ Ready \/ Failed
                /\ Ready => (session.spec = <<spec>> /\ session.status \in 200..299))
    /\ [][~session.loading =>
             (Hook' = Hook /\ session'.fetches = session.fetches)]_vars

\* C13 witness: the fetch was answered with 500 and the session has failed;
\* the Sidebar is not shown.
C13_Witness ==
    /\ session.stage = "done"
    /\ session.status = 500
    /\ Failed
    /\ session.fetches = 1
    /\ ~sidebarShown

(***************************************************************************)
(* Claims about termination of the example synthesizer.                    *)
(***************************************************************************)
\* The schema a schema refers to: the component its $ref is resolved to by
\* the synthesizer, else the items of an array; <<>> when there is none.
Referred(schema) ==
    IF inlineResolve(spec, schema) # <<>> THEN inlineResolve(spec, schema)
    ELSE IF schema.type = "array" THEN schema.items
    ELSE <<>>

\* The same, where an array with a truthy example of its own refers to
\* nothing.
ReferredUnlessExample(schema) ==
    IF inlineResolve(spec, schema) # <<>> THEN inlineResolve(spec, schema)
    ELSE IF schema.hasExample /\ Truthy(schema.example) THEN <<>>
    ELSE IF schema.type = "array" THEN schema.items
    ELSE <<>>

\* The chain of references from a schema comes back to a schema of the
\* chain.
RECURSIVE Cycles(_, _)
Cycles(at, seen) ==
    IF at = <<>> THEN FALSE
    ELSE IF at[1] \in seen THEN TRUE
    ELSE Cycles(Referred(at[1]), seen \cup {at[1]})

RECURSIVE CyclesUnlessExample(_, _)
CyclesUnlessExample(at, seen) ==
    IF at = <<>> THEN FALSE
    ELSE IF at[1] \in seen THEN TRUE
    ELSE CyclesUnlessExample(ReferredUnlessExample(at[1]), seen \cup {at[1]})

\* C18 as stated: when the chain of $ref and array items from the schema
\* comes back to itself, the synthesis never produces a result and nests
\* calls up to any depth; when it does not, the synthesis produces a result.
C18_AsStated ==
    /\ [](Cycles(gen.root, {}) => gen.pc # "done")
    /\ Cycles(gen.root, {}) ~> (gen.calls = MaxCalls)
    /\ ~Cycles(gen.root, {}) ~> (gen.pc = "done")

\* C18: the same, where the chain ends at an array that carries a truthy
\* example of its own, which is returned before the items are looked at.
C18_NoCycleDetection ==
    /\ [](CyclesUnlessExample(gen.root, {}) => gen.pc # "done")
    /\ CyclesUnlessExample(gen.root, {}) ~> (gen.calls = MaxCalls)
    /\ ~CyclesUnlessExample(gen.root, {}) ~> (gen.pc = "done")

\* C18 witness: the synthesis for a reference to an array of references to
\* itself has nested MaxCalls calls, is at the reference again and has no
\* result.
C18_Witness ==
    /\ gen.pc = "call"
    /\ gen.calls = MaxCalls
    /\ gen.root # <<>>
    /\ gen.root[1].hasRef
    /\ schemaNamed(spec, <<"A">>) = <<ArrayOf(<<gen.root[1]>>)>>
    /\ gen.call = gen.root
    /\ gen.wraps > 1

====
